---- MODULE Spec2Model ----
(***************************************************************************)
(* Model of avl_tree<T, Compare, Equal> (src/include/avl_tree.hpp).        *)
(*                                                                         *)
(* A tree is a node: a record with the fields of the class (info, left,    *)
(* right, _size, _height).  A pointer is a sequence of length at most one: *)
(* << >> is nullptr and << x >> points to x.  Every child is owned by      *)
(* exactly one parent, so the structure is modelled by nesting.            *)
(*                                                                         *)
(* An operation that may throw is an operator returning a record           *)
(* [node, ok, ret]: node is the subtree as the call left it (also when it  *)
(* threw), ok is FALSE when the call threw, ret is a pointer to the        *)
(* returned value.                                                         *)
(***************************************************************************)
EXTENDS Integers, Sequences, FiniteSets, TLC

\* ---------------------------------------------------------------- bounds
MaxKey == 4
MaxOps == 7
\* number of values of the insert-all-then-remove-all scenario
MaxDrain == 6
\* number of further calls once MaxDrain values are stored
MaxChurn == 2
\* number of calls of the two-tree scenario
MaxCopyOps == 5
\* number of keys of the trees handed to rebalance()
MaxRebalance == 6
\* number of values of the ascending-insert scenario
MaxAscending == 7

Keys == 1..MaxKey
Tags == {"a", "b"}

\* T: a key with an auxiliary payload; Compare and Equal look at the key only
Values == [key : Keys, tag : Tags]

is_less(a, b) == a.key < b.key
is_equal(a, b) == a.key = b.key

\* ------------------------------------------------------------- the node
NULL == << >>

\* avl_tree(): the node after construction
EmptyTree == [info |-> NULL, left |-> NULL, right |-> NULL, size |-> 0, height |-> 0]

height(t) == t.height
size(t) == t.size
empty(t) == t.info = NULL
is_leaf(t) == t.left = NULL /\ t.right = NULL

balance_factor(t) ==
    (IF t.right # NULL THEN height(t.right[1]) ELSE 0)
  - (IF t.left # NULL THEN height(t.left[1]) ELSE 0)

\* a child link left as it is, empty node or not
keep_if_empty(ptr) == ptr

delete_if_empty(ptr) ==
    IF ptr = NULL THEN NULL
    ELSE IF empty(ptr[1]) THEN NULL
    ELSE ptr

\* rotate_left, with the effect of swap(*this, *aux) folded in: the object
\* at this node's position ends with aux's fields, aux with this node's
rotate_left(t) ==
    LET aux == t.right[1]
        demoted == [info   |-> t.info,
                    left   |-> t.left,
                    right  |-> aux.left,
                    size   |-> aux.size,
                    height |-> t.height - 2]
    IN [info   |-> aux.info,
        left   |-> << demoted >>,
        right  |-> aux.right,
        size   |-> t.size,
        height |-> aux.height + 1]

rotate_right(t) ==
    LET aux == t.left[1]
        demoted == [info   |-> t.info,
                    left   |-> aux.right,
                    right  |-> t.right,
                    size   |-> aux.size,
                    height |-> t.height - 2]
    IN [info   |-> aux.info,
        left   |-> aux.left,
        right  |-> << demoted >>,
        size   |-> t.size,
        height |-> aux.height + 1]

rebalance(t) ==
    LET balance == balance_factor(t)
    IN IF balance < -1
       THEN IF balance_factor(t.left[1]) > 0
            THEN rotate_right([t EXCEPT !.left = << rotate_left(t.left[1]) >>])
            ELSE rotate_right(t)
       ELSE IF balance > 1
       THEN IF balance_factor(t.right[1]) < 0
            THEN rotate_left([t EXCEPT !.right = << rotate_right(t.right[1]) >>])
            ELSE rotate_left(t)
       ELSE t

recalculate(t) ==
    LET rh == IF t.right # NULL THEN t.right[1].height ELSE 0
        lh == IF t.left # NULL THEN t.left[1].height ELSE 0
    IN rebalance([t EXCEPT !.height = (IF rh > lh THEN rh ELSE lh) + 1])

Thrown(t) == [node |-> t, ok |-> FALSE, ret |-> NULL]
Returned(t, r) == [node |-> t, ok |-> TRUE, ret |-> r]

RECURSIVE min(_)
min(t) ==
    IF empty(t) THEN Thrown(t)
    ELSE IF t.left # NULL THEN [min(t.left[1]) EXCEPT !.node = t]
    ELSE Returned(t, t.info)

RECURSIVE max(_)
max(t) ==
    IF empty(t) THEN Thrown(t)
    ELSE IF t.right # NULL THEN [max(t.right[1]) EXCEPT !.node = t]
    ELSE Returned(t, t.info)

RECURSIVE pop(_), popleft(_)
pop(t) ==
    IF empty(t) THEN Thrown(t)
    ELSE IF t.right # NULL
    THEN LET r == pop(t.right[1])
         IN IF ~r.ok
            THEN Thrown([t EXCEPT !.right = << r.node >>])
            ELSE Returned(recalculate([t EXCEPT !.right = delete_if_empty(<< r.node >>)]),
                          r.ret)
    ELSE IF t.left # NULL
    THEN LET r == popleft(t.left[1])
         IN IF ~r.ok
            THEN Thrown([t EXCEPT !.left = << r.node >>])
            ELSE Returned(recalculate([t EXCEPT !.info = r.ret,
                                                !.left = delete_if_empty(<< r.node >>)]),
                          t.info)
    ELSE Returned(recalculate([t EXCEPT !.info = NULL]), t.info)

popleft(t) ==
    IF empty(t) THEN Thrown(t)
    ELSE IF t.left # NULL
    THEN LET r == popleft(t.left[1])
         IN IF ~r.ok
            THEN Thrown([t EXCEPT !.left = << r.node >>])
            ELSE Returned(recalculate([t EXCEPT !.left = delete_if_empty(<< r.node >>)]),
                          r.ret)
    ELSE IF t.right # NULL
    THEN LET r == pop(t.right[1])
         IN IF ~r.ok
            THEN Thrown([t EXCEPT !.right = << r.node >>])
            ELSE Returned(recalculate([t EXCEPT !.info = r.ret,
                                                !.right = delete_if_empty(<< r.node >>)]),
                          t.info)
    ELSE Returned(recalculate([t EXCEPT !.info = NULL]), t.info)

clear(t) == EmptyTree

RECURSIVE insert(_, _)
insert(t, data) ==
    IF t.info = NULL
    THEN Returned(recalculate([t EXCEPT !.info = << data >>,
                                        !.height = 1,
                                        !.size = t.size + 1]), NULL)
    ELSE IF is_equal(data, t.info[1])
    THEN Thrown(t)
    ELSE IF is_less(data, t.info[1])
    THEN LET r == insert(IF t.left = NULL THEN EmptyTree ELSE t.left[1], data)
         IN IF ~r.ok
            THEN Thrown([t EXCEPT !.left = << r.node >>])
            ELSE Returned(recalculate([t EXCEPT !.left = << r.node >>,
                                                !.size = t.size + 1]), NULL)
    ELSE LET r == insert(IF t.right = NULL THEN EmptyTree ELSE t.right[1], data)
         IN IF ~r.ok
            THEN Thrown([t EXCEPT !.right = << r.node >>])
            ELSE Returned(recalculate([t EXCEPT !.right = << r.node >>,
                                                !.size = t.size + 1]), NULL)

\* the tail of update: recalculate() after the branch, skipped when it threw
UpdateTail(r) == IF r.ok THEN Returned(recalculate(r.node), NULL) ELSE r

RECURSIVE update(_, _)
update(t, data) ==
    IF t.info = NULL
    THEN UpdateTail(insert(t, data))
    ELSE IF is_equal(data, t.info[1])
    THEN UpdateTail(Returned([t EXCEPT !.info = << data >>], NULL))
    ELSE IF is_less(data, t.info[1])
    THEN IF t.left = NULL
         THEN UpdateTail(insert(t, data))
         ELSE LET r == update(t.left[1], data)
              IN UpdateTail([r EXCEPT !.node = [t EXCEPT !.left = << r.node >>]])
    ELSE IF t.right = NULL
         THEN UpdateTail(insert(t, data))
         ELSE LET r == update(t.right[1], data)
              IN UpdateTail([r EXCEPT !.node = [t EXCEPT !.right = << r.node >>]])

\* RemoveTail with the decrement of _size left out
RemoveTailKeepsSize(r) ==
    IF r.ok THEN Returned(recalculate(r.node), NULL) ELSE r

\* the tail of remove: _size-- and recalculate(), skipped when the branch threw
RemoveTail(r) ==
    IF r.ok
    THEN Returned(recalculate([r.node EXCEPT !.size = r.node.size - 1]), NULL)
    ELSE r

\* remove_missing returning normally instead of throwing
remove_missing_silent(t) == Returned(t, NULL)

\* the last branch of remove: no matching node and no child to search
remove_missing(t) == Thrown(t)

RECURSIVE remove(_, _)
remove(t, data) ==
    IF empty(t) THEN Thrown(t)
    ELSE IF is_equal(t.info[1], data)
    THEN IF t.left # NULL
         THEN LET r == pop(t.left[1])
              IN IF ~r.ok
                 THEN Thrown([t EXCEPT !.left = << r.node >>])
                 ELSE RemoveTail(Returned([t EXCEPT !.info = r.ret,
                                                    !.left = delete_if_empty(<< r.node >>)],
                                          NULL))
         ELSE IF t.right # NULL
         THEN LET r == popleft(t.right[1])
              IN IF ~r.ok
                 THEN Thrown([t EXCEPT !.right = << r.node >>])
                 ELSE RemoveTail(Returned([t EXCEPT !.info = r.ret,
                                                    !.right = delete_if_empty(<< r.node >>)],
                                          NULL))
         ELSE Returned([t EXCEPT !.info = NULL, !.height = 0, !.size = 0], NULL)
    ELSE IF t.left # NULL /\ is_less(data, t.info[1])
    THEN LET r == remove(t.left[1], data)
         IN IF ~r.ok
            THEN Thrown([t EXCEPT !.left = << r.node >>])
            ELSE RemoveTail(Returned([t EXCEPT !.left = delete_if_empty(<< r.node >>)], NULL))
    ELSE IF t.right # NULL
    THEN LET r == remove(t.right[1], data)
         IN IF ~r.ok
            THEN Thrown([t EXCEPT !.right = << r.node >>])
            ELSE RemoveTail(Returned([t EXCEPT !.right = delete_if_empty(<< r.node >>)], NULL))
    ELSE remove_missing(t)

\* find(T& data): found, and data as the call leaves it
RECURSIVE find(_, _)
find(t, data) ==
    IF empty(t) THEN [found |-> FALSE, data |-> data]
    ELSE IF is_equal(t.info[1], data) THEN [found |-> TRUE, data |-> t.info[1]]
    ELSE IF t.left # NULL /\ is_less(data, t.info[1]) THEN find(t.left[1], data)
    ELSE IF t.right # NULL THEN find(t.right[1], data)
    ELSE [found |-> FALSE, data |-> data]

includes(t, data) == find(t, data).found

\* ------------------------------------------------------------- copying
\* The result of a copy is a record: node (the object as the call leaves
\* it) and alive (the process survived the call).
\*
\* The copy constructor runs operator= on an object whose members have not
\* been set, and operator= first runs the destructor on it: the destructor
\* reads info, left and right of memory that was never written, which is
\* undefined behaviour.  memory says what that storage holds: "zeroed" (the
\* three pointers read as null, the destructor frees nothing) or "dirty" (a
\* pointer reads as non-null, delete is called on it and the process is
\* killed).
Memory == {"zeroed", "dirty"}

\* new T(*ptr), and new avl_tree(*ptr) through the copy constructor
RECURSIVE clone_ptr(_, _)
RECURSIVE copy_constructor(_, _)
RECURSIVE assign_members(_, _)

\* the member assignments of operator=, after the destructor has run
assign_members(model, memory) ==
    LET l == clone_ptr(model.left, memory)
        r == clone_ptr(model.right, memory)
    IN [node  |-> [info |-> model.info, left |-> l.node, right |-> r.node,
                   size |-> model.size, height |-> model.height],
        alive |-> l.alive /\ r.alive]

copy_constructor(model, memory) ==
    IF memory = "dirty" THEN [node |-> model, alive |-> FALSE]
    ELSE assign_members(model, memory)

clone_ptr(ptr, memory) ==
    IF ptr = NULL THEN [node |-> NULL, alive |-> TRUE]
    ELSE LET c == copy_constructor(ptr[1], memory)
         IN [node |-> << c.node >>, alive |-> c.alive]

\* operator= on a constructed object other than the model: its destructor
\* frees what it owns, then the members are assigned
assign(this, model, memory) == assign_members(model, memory)

\* ---------------------------------------------------- in-order iterator
\* The stack of an inorder_iterator is a sequence of nodes, top last.
RECURSIVE push_left_chain(_)
push_left_chain(stack) ==
    IF stack[Len(stack)].left # NULL
    THEN push_left_chain(Append(stack, stack[Len(stack)].left[1]))
    ELSE stack

inorder_iterator(ptr) == IF ptr # NULL THEN push_left_chain(<< ptr[1] >>) ELSE << >>

end_in_order(t) == inorder_iterator(NULL)
begin_in_order(t) == IF empty(t) THEN end_in_order(t) ELSE inorder_iterator(<< t >>)

\* operator++: the iterator as the call leaves it, ok FALSE when it threw
inorder_increment(stack) ==
    IF stack = << >> THEN [it |-> stack, ok |-> FALSE]
    ELSE LET current == stack[Len(stack)]
             popped == SubSeq(stack, 1, Len(stack) - 1)
         IN [it |-> IF current.right # NULL
                    THEN push_left_chain(Append(popped, current.right[1]))
                    ELSE popped,
             ok |-> TRUE]

inorder_equal(a, b) ==
    IF a = << >> THEN b = << >>
    ELSE IF b = << >> THEN FALSE
    ELSE a[Len(a)] = b[Len(b)]

\* operator*: the info pointer of the node on top
inorder_deref(stack) == stack[Len(stack)].info

\* for (it = begin_in_order(); it != end_in_order(); it++) cout << *it
RECURSIVE print_from(_, _)
print_from(it, end) ==
    IF inorder_equal(it, end) THEN << >>
    ELSE inorder_deref(it) \o print_from(inorder_increment(it).it, end)

print_sorted(t) == print_from(begin_in_order(t), end_in_order(t))

\* --------------------------------------------------- level-order iterator
\* A level_iterator is its fields: q, the queue of pairs (first: level,
\* second: node) with the front first, and _level.  Pairs are compared by
\* content here; the traversal only compares against an empty queue.
level_iterator(ptr) ==
    [q |-> IF ptr # NULL THEN << [first |-> 0, second |-> ptr[1]] >> ELSE << >>,
     _level |-> 0]

end_by_level(t) == level_iterator(NULL)
begin_by_level(t) == IF empty(t) THEN end_by_level(t) ELSE level_iterator(<< t >>)

\* the queue after the pushes of operator++: left child, then right child
level_push(q) ==
    LET current == q[1]
        lv == current.first
        t == current.second
        q1 == IF t.left # NULL THEN Append(q, [first |-> lv + 1, second |-> t.left[1]]) ELSE q
    IN IF t.right # NULL THEN Append(q1, [first |-> lv + 1, second |-> t.right[1]]) ELSE q1

\* operator++: the iterator as the call leaves it, ok FALSE when it threw
level_increment(it) ==
    IF it.q = << >> THEN [it |-> it, ok |-> FALSE]
    ELSE [it |-> [it EXCEPT !.q = Tail(level_push(it.q))], ok |-> TRUE]

level_equal(a, b) ==
    IF a.q = << >> THEN b.q = << >>
    ELSE IF b.q = << >> THEN FALSE
    ELSE a.q[1] = b.q[1]

\* level(): the level of the pair at the front
level_level(it) == it.q[1].first

\* operator*: the info pointer of the node at the front
level_deref(it) == it.q[1].second.info

\* for (it = begin_by_level(); it != end_by_level(); it++)
\*     ... it.level() ... cout << *it
\* what the loop reads at each position: level() and the info pointer
RECURSIVE print_level_from(_, _)
print_level_from(it, end) ==
    IF level_equal(it, end) THEN << >>
    ELSE << [level |-> level_level(it), info |-> level_deref(it)] >>
         \o print_level_from(level_increment(it).it, end)

print_level(t) == print_level_from(begin_by_level(t), end_by_level(t))

\* ------------------------------------------- dereferencing an iterator
\* The outcome of a call is a record: ok (it returned), ret (what it
\* returned), alive (the process survived it).  front() and top() of an empty
\* container and the use of a null pointer are undefined behaviour: the call
\* does not throw; the process is killed, or the call returns whatever the
\* memory it reads holds.
Killed == [ok |-> FALSE, ret |-> NULL, alive |-> FALSE]
Gave(r) == [ok |-> TRUE, ret |-> r, alive |-> TRUE]
Undefined(R) == {Killed} \cup {Gave(r) : r \in R}

\* a T read from memory that holds no node
GarbageValues == {<< v >> : v \in Values}
\* a T* read from memory that holds no node
GarbagePointers == GarbageValues \cup {NULL}
\* an int read from memory that holds no pair
GarbageLevels == {<< n >> : n \in 0..MaxKey}

\* level_iterator::operator*
level_star(i) ==
    IF i.q = << >> THEN Undefined(GarbageValues)
    ELSE IF i.q[1].second.info = NULL THEN {Killed}
    ELSE {Gave(i.q[1].second.info)}

\* level_iterator::operator->
level_arrow(i) ==
    IF i.q = << >> THEN Undefined(GarbagePointers)
    ELSE {Gave(i.q[1].second.info)}

\* level_iterator::level
level_of(i) ==
    IF i.q = << >> THEN Undefined(GarbageLevels)
    ELSE {Gave(<< i.q[1].first >>)}

\* inorder_iterator::operator*
inorder_star(stack) ==
    IF stack = << >> THEN Undefined(GarbageValues)
    ELSE IF stack[Len(stack)].info = NULL THEN {Killed}
    ELSE {Gave(stack[Len(stack)].info)}

\* inorder_iterator::operator->
inorder_arrow(stack) ==
    IF stack = << >> THEN Undefined(GarbagePointers)
    ELSE {Gave(stack[Len(stack)].info)}

\* ------------------------------------------------------ the state machine
\* tree:  the avl_tree object the caller holds (the root node)
\* last:  the last call made on it: name, argument, whether it returned
\*        (ok) or threw, and the value it returned
\* steps: number of calls made so far
\* count: successful inserts minus successful removes since the last clear,
\*        as a pointer: NULL once a call other than insert, remove and
\*        clear has been made since that clear (the ledger counts no other)
\* aset:  the mathematical set the same calls build
\* it:    the iterator the caller holds, if any
\* copy:  a pointer to the second avl_tree object of the caller, if any
\* alive: FALSE once the process has been killed by a signal
VARIABLES tree, last, steps, count, aset, it, copy, alive

vars == << tree, last, steps, count, aset, it, copy, alive >>

\* what a call on the tree leaves alone
rest == << it, copy, alive >>

\* no iterator held
NoIterator == [kind |-> "none", at |-> NULL]

\* the values the caller inserts, and the arguments of remove and find
Fresh == {v \in Values : v.tag = "a"}
\* the values the caller passes to update: a new payload for the key
Revised == {v \in Values : v.tag = "b"}

Counted(c, d) == IF c = NULL THEN NULL ELSE << c[1] + d >>

Call(op, arg, r) == [op |-> op, arg |-> arg, ok |-> r.ok, ret |-> r.ret]

\* the abstract set: values with pairwise different keys
SetHas(S, v) == \E x \in S : is_equal(x, v)
SetWithout(S, v) == {x \in S : ~is_equal(x, v)}
SetMax(S) == CHOOSE x \in S : \A y \in S : ~is_less(x, y)
SetMin(S) == CHOOSE x \in S : \A y \in S : ~is_less(y, x)

Init ==
    /\ tree = EmptyTree
    /\ last = [op |-> "new", arg |-> NULL, ok |-> TRUE, ret |-> NULL]
    /\ steps = 0
    /\ count = << 0 >>
    /\ aset = {}
    /\ it = NoIterator
    /\ copy = NULL
    /\ alive = TRUE

InsertCall(v) ==
    /\ LET r == insert(tree, v)
       IN /\ tree' = r.node
          /\ last' = Call("insert", << v >>, r)
          /\ count' = IF r.ok THEN Counted(count, 1) ELSE count
          /\ aset' = IF r.ok THEN aset \cup {v} ELSE aset
    /\ steps' = steps + 1
    /\ UNCHANGED rest

Insert(v) == steps < MaxOps /\ InsertCall(v)

Update(v) ==
    /\ steps < MaxOps
    /\ LET r == update(tree, v)
       IN /\ tree' = r.node
          /\ last' = Call("update", << v >>, r)
          /\ aset' = IF r.ok THEN SetWithout(aset, v) \cup {v} ELSE aset
    /\ steps' = steps + 1
    /\ count' = NULL
    /\ UNCHANGED rest

RemoveCall(v) ==
    /\ LET r == remove(tree, v)
       IN /\ tree' = r.node
          /\ last' = Call("remove", << v >>, r)
          /\ count' = IF r.ok THEN Counted(count, -1) ELSE count
          /\ aset' = IF r.ok THEN SetWithout(aset, v) ELSE aset
    /\ steps' = steps + 1
    /\ UNCHANGED rest

Remove(v) == steps < MaxOps /\ RemoveCall(v)

Pop ==
    /\ steps < MaxOps
    /\ LET r == pop(tree)
       IN /\ tree' = r.node
          /\ last' = Call("pop", NULL, r)
          /\ aset' = IF r.ok /\ aset # {} THEN aset \ {SetMax(aset)} ELSE aset
    /\ steps' = steps + 1
    /\ count' = NULL
    /\ UNCHANGED rest

PopLeft ==
    /\ steps < MaxOps
    /\ LET r == popleft(tree)
       IN /\ tree' = r.node
          /\ last' = Call("popleft", NULL, r)
          /\ aset' = IF r.ok /\ aset # {} THEN aset \ {SetMin(aset)} ELSE aset
    /\ steps' = steps + 1
    /\ count' = NULL
    /\ UNCHANGED rest

Clear ==
    /\ steps < MaxOps
    /\ tree' = clear(tree)
    /\ last' = [op |-> "clear", arg |-> NULL, ok |-> TRUE, ret |-> NULL]
    /\ count' = << 0 >>
    /\ aset' = {}
    /\ steps' = steps + 1
    /\ UNCHANGED rest

Next ==
    \/ \E v \in Fresh : Insert(v)
    \/ \E v \in Revised : Update(v)
    \/ \E v \in Fresh : Remove(v)
    \/ Pop
    \/ PopLeft
    \/ Clear

Spec == Init /\ [][Next]_vars

\* the calls the size ledger counts: insert, remove and clear only
NextIRC ==
    \/ \E v \in Fresh : Insert(v)
    \/ \E v \in Fresh : Remove(v)
    \/ Clear

SpecIRC == Init /\ [][NextIRC]_vars

\* round trip: distinct values are inserted in any order, then the caller
\* only pops, or only pops from the left
NextRoundTrip ==
    \/ \E v \in Fresh :
           last.op \in {"new", "insert"} /\ ~SetHas(aset, v) /\ Insert(v)
    \/ last.op \in {"insert", "pop"} /\ Pop
    \/ last.op \in {"insert", "popleft"} /\ PopLeft

SpecRoundTrip == Init /\ [][NextRoundTrip]_vars

\* drain: up to MaxDrain distinct values are inserted in any order, then the
\* caller removes stored values, in any order, with at most as many calls
DrainValues == {[key |-> k, tag |-> "a"] : k \in 1..MaxDrain}

NextDrain ==
    \/ \E v \in DrainValues :
           last.op \in {"new", "insert"} /\ ~SetHas(aset, v) /\ InsertCall(v)
    \/ \E v \in DrainValues :
           /\ last.op \in {"insert", "remove"}
           /\ steps < 2 * MaxDrain
           /\ SetHas(aset, v)
           /\ RemoveCall(v)

SpecDrain == Init /\ [][NextDrain]_vars

\* churn: the MaxDrain values are inserted in any order, then the caller
\* makes up to MaxChurn calls of insert or remove with any of them
NextChurn ==
    \/ \E v \in DrainValues :
           steps < MaxDrain /\ ~SetHas(aset, v) /\ InsertCall(v)
    \/ \E v \in DrainValues :
           steps >= MaxDrain /\ steps < MaxDrain + MaxChurn /\ InsertCall(v)
    \/ \E v \in DrainValues :
           steps >= MaxDrain /\ steps < MaxDrain + MaxChurn /\ RemoveCall(v)

SpecChurn == Init /\ [][NextChurn]_vars

\* iterate: the caller builds a tree with insert and remove, takes an
\* iterator, and advances and dereferences it
BeginByLevel ==
    /\ alive /\ it.kind = "none"
    /\ it' = [kind |-> "level", at |-> begin_by_level(tree)]
    /\ last' = [op |-> "begin_by_level", arg |-> NULL, ok |-> TRUE, ret |-> NULL]
    /\ UNCHANGED << tree, steps, count, aset, copy, alive >>

BeginInOrder ==
    /\ alive /\ it.kind = "none"
    /\ it' = [kind |-> "inorder", at |-> begin_in_order(tree)]
    /\ last' = [op |-> "begin_in_order", arg |-> NULL, ok |-> TRUE, ret |-> NULL]
    /\ UNCHANGED << tree, steps, count, aset, copy, alive >>

\* ++it
Advance ==
    /\ alive /\ it.kind # "none"
    /\ LET r == IF it.kind = "level" THEN level_increment(it.at)
                ELSE inorder_increment(it.at)
       IN /\ it' = [it EXCEPT !.at = r.it]
          /\ last' = [op |-> "++", arg |-> NULL, ok |-> r.ok, ret |-> NULL]
    /\ UNCHANGED << tree, steps, count, aset, copy, alive >>

\* a call that reads through the iterator and leaves it where it is
Read(op, outcomes) ==
    /\ alive
    /\ \E o \in outcomes :
           /\ last' = [op |-> op, arg |-> NULL, ok |-> o.ok, ret |-> o.ret]
           /\ alive' = o.alive
    /\ UNCHANGED << tree, steps, count, aset, it, copy >>

\* *it
Star ==
    /\ it.kind # "none"
    /\ Read("*", IF it.kind = "level" THEN level_star(it.at) ELSE inorder_star(it.at))

\* it.operator->()
Arrow ==
    /\ it.kind # "none"
    /\ Read("->", IF it.kind = "level" THEN level_arrow(it.at) ELSE inorder_arrow(it.at))

\* it.level()
Level ==
    /\ it.kind = "level"
    /\ Read("level", level_of(it.at))

NextIterate ==
    \/ \E v \in Fresh : it.kind = "none" /\ Insert(v)
    \/ \E v \in Fresh : it.kind = "none" /\ Remove(v)
    \/ BeginByLevel
    \/ BeginInOrder
    \/ Advance
    \/ Star
    \/ Arrow
    \/ Level

SpecIterate == Init /\ [][NextIterate]_vars

\* copy: the caller works on a tree, makes a second tree from it, and
\* works on both
NewCopy ==
    /\ alive /\ copy = NULL /\ steps < MaxCopyOps
    /\ copy' = << EmptyTree >>
    /\ last' = [op |-> "new copy", arg |-> NULL, ok |-> TRUE, ret |-> NULL]
    /\ steps' = steps + 1
    /\ UNCHANGED << tree, count, aset, it, alive >>

\* avl_tree<T> copy(tree)
CopyConstruct ==
    /\ alive /\ copy = NULL /\ steps < MaxCopyOps
    /\ \E memory \in Memory :
           LET r == copy_constructor(tree, memory)
           IN /\ copy' = IF r.alive THEN << r.node >> ELSE copy
              /\ alive' = r.alive
              /\ last' = [op |-> "copy", arg |-> NULL, ok |-> r.alive, ret |-> NULL]
    /\ steps' = steps + 1
    /\ UNCHANGED << tree, count, aset, it >>

\* copy = tree
Assign ==
    /\ alive /\ copy # NULL /\ steps < MaxCopyOps
    /\ \E memory \in Memory :
           LET r == assign(copy[1], tree, memory)
           IN /\ copy' = IF r.alive THEN << r.node >> ELSE copy
              /\ alive' = r.alive
              /\ last' = [op |-> "assign", arg |-> NULL, ok |-> r.alive, ret |-> NULL]
    /\ steps' = steps + 1
    /\ UNCHANGED << tree, count, aset, it >>

\* the calls that change a tree, by name
CopyCalls == {"insert", "update", "remove", "pop", "popleft", "clear"}

apply(op, t, v) ==
    CASE op = "insert"  -> insert(t, v)
      [] op = "update"  -> update(t, v)
      [] op = "remove"  -> remove(t, v)
      [] op = "pop"     -> pop(t)
      [] op = "popleft" -> popleft(t)
      [] op = "clear"   -> Returned(clear(t), NULL)

\* a call on the second tree
OnCopy(op, v) ==
    /\ alive /\ copy # NULL /\ steps < MaxCopyOps
    /\ LET r == apply(op, copy[1], v)
       IN /\ copy' = << r.node >>
          /\ last' = Call("on copy", << v >>, r)
    /\ steps' = steps + 1
    /\ UNCHANGED << tree, count, aset, it, alive >>

\* calls on the first tree, while the process lives
OnTree == alive /\ steps < MaxCopyOps

NextCopy ==
    \/ \E v \in Fresh : OnTree /\ Insert(v)
    \/ \E v \in Revised : OnTree /\ Update(v)
    \/ \E v \in Fresh : OnTree /\ Remove(v)
    \/ OnTree /\ Pop
    \/ OnTree /\ PopLeft
    \/ OnTree /\ Clear
    \/ NewCopy
    \/ CopyConstruct
    \/ Assign
    \/ \E op \in CopyCalls : \E v \in Fresh : OnCopy(op, v)

SpecCopy == Init /\ [][NextCopy]_vars

\* ascending: values of 1..MaxAscending are inserted in ascending order
\* (the caller may leave some out)
AscendingValues == {[key |-> k, tag |-> "a"] : k \in 1..MaxAscending}

NextAscending ==
    \E v \in AscendingValues :
        (\A x \in aset : is_less(x, v)) /\ InsertCall(v)

SpecAscending == Init /\ [][NextAscending]_vars

\* ------------------------------------------------- what the claims speak of
Max2(a, b) == IF a > b THEN a ELSE b
Abs(x) == IF x < 0 THEN -x ELSE x

\* every node reachable through a pointer, the pointed node included
RECURSIVE NodesOf(_)
NodesOf(ptr) ==
    IF ptr = NULL THEN {}
    ELSE {ptr[1]} \cup NodesOf(ptr[1].left) \cup NodesOf(ptr[1].right)

\* the stored values reachable through a pointer
ValuesOf(ptr) == {n.info[1] : n \in {m \in NodesOf(ptr) : m.info # NULL}}

\* the number of stored values reachable through a pointer
RECURSIVE CountOf(_)
CountOf(ptr) ==
    IF ptr = NULL THEN 0
    ELSE (IF ptr[1].info # NULL THEN 1 ELSE 0) + CountOf(ptr[1].left) + CountOf(ptr[1].right)

\* length of the longest path from the pointed node down to a leaf
RECURSIVE ActualHeight(_)
ActualHeight(ptr) ==
    IF ptr = NULL THEN 0
    ELSE IF empty(ptr[1]) /\ is_leaf(ptr[1]) THEN 0
    ELSE 1 + Max2(ActualHeight(ptr[1].left), ActualHeight(ptr[1].right))

CachedHeight(ptr) == IF ptr = NULL THEN 0 ELSE ptr[1].height
CachedSize(ptr) == IF ptr = NULL THEN 0 ELSE ptr[1].size

Stores(t, v) == \E x \in ValuesOf(<< t >>) : is_equal(x, v)

\* the keys of a subtree at their positions: payloads and caches left out
RECURSIVE Shape(_)
Shape(ptr) ==
    IF ptr = NULL THEN << >>
    ELSE << [key   |-> IF ptr[1].info = NULL THEN 0 ELSE ptr[1].info[1].key,
             left  |-> Shape(ptr[1].left),
             right |-> Shape(ptr[1].right)] >>

\* the nodes at distance d below a pointer, left to right, each with d
RECURSIVE AtDepth(_, _, _)
AtDepth(ptr, d, from) ==
    IF ptr = NULL THEN << >>
    ELSE IF d = 0 THEN << [level |-> from, info |-> ptr[1].info] >>
    ELSE AtDepth(ptr[1].left, d - 1, from) \o AtDepth(ptr[1].right, d - 1, from)

\* the nodes of a tree level by level, from level d on
RECURSIVE LevelsFrom(_, _)
LevelsFrom(t, d) ==
    IF AtDepth(<< t >>, d, d) = << >> THEN << >>
    ELSE AtDepth(<< t >>, d, d) \o LevelsFrom(t, d + 1)

\* a node whose cached size and height are those computed from its children
\* (the height as recalculate() computes it)
Recomputed(n) ==
    /\ n.size = 1 + CachedSize(n.left) + CachedSize(n.right)
    /\ n.height = 1 + Max2(CachedHeight(n.left), CachedHeight(n.right))

\* rebalance: the caller's node is any search tree over keys of
\* 1..MaxRebalance whose cached sizes and heights are all recomputed ones and
\* whose balance factor is +2 or -2; rebalance() runs on it once
ConsistentNode(k, l, r) ==
    [info   |-> << [key |-> k, tag |-> "a"] >>,
     left   |-> l,
     right  |-> r,
     size   |-> 1 + CachedSize(l) + CachedSize(r),
     height |-> 1 + Max2(CachedHeight(l), CachedHeight(r))]

\* pointers to the consistent search trees with keys in lo..hi
RECURSIVE ConsistentTrees(_, _)
ConsistentTrees(lo, hi) ==
    {NULL} \cup UNION {{<< ConsistentNode(k, l, r) >> :
                           l \in ConsistentTrees(lo, k - 1),
                           r \in ConsistentTrees(k + 1, hi)} : k \in lo..hi}

Unbalanced ==
    {p[1] : p \in {q \in ConsistentTrees(1, MaxRebalance) \ {NULL} :
                       balance_factor(q[1]) \in {-2, 2}}}

InitRebalance ==
    /\ tree \in Unbalanced
    /\ last = [op |-> "new", arg |-> NULL, ok |-> TRUE, ret |-> NULL]
    /\ steps = 0
    /\ count = NULL
    /\ aset = ValuesOf(<< tree >>)
    /\ it = NoIterator
    /\ copy = NULL
    /\ alive = TRUE

Rebalance ==
    /\ last.op = "new"
    /\ tree' = rebalance(tree)
    /\ last' = [op |-> "rebalance", arg |-> NULL, ok |-> TRUE, ret |-> NULL]
    /\ steps' = steps + 1
    /\ UNCHANGED << count, aset, it, copy, alive >>

NextRebalance == Rebalance

SpecRebalance == InitRebalance /\ [][NextRebalance]_vars

\* the value rebalance() has to bring to the top: the root of the heavy
\* child, or of that child's inner subtree when the child leans inwards
Promoted(t) ==
    IF balance_factor(t) > 1
    THEN IF balance_factor(t.right[1]) < 0 THEN t.right[1].left[1].info
         ELSE t.right[1].info
    ELSE IF balance_factor(t.left[1]) > 0 THEN t.left[1].right[1].info
         ELSE t.left[1].info

\* an iterator that compares equal to the end iterator of its kind
Exhausted(i) ==
    \/ i.kind = "level" /\ level_equal(i.at, end_by_level(tree))
    \/ i.kind = "inorder" /\ inorder_equal(i.at, end_in_order(tree))

Ascending(seq) == \A i \in 1..(Len(seq) - 1) : is_less(seq[i], seq[i + 1])

\* ------------------------------------------------------------------ claims

\* C1: after every call of any sequence of insert, update, remove, pop,
\* popleft and clear, every node is AVL-balanced: the actual heights of its
\* right and left subtrees differ by at most 1.
C1_Balanced ==
    \A n \in NodesOf(<< tree >>) :
        Abs(ActualHeight(n.right) - ActualHeight(n.left)) <= 1

\* C2: after any sequence of calls a full in-order traversal yields the
\* stored values in strictly ascending order, and every value in a node's
\* left subtree is less than the node's value and every value in its right
\* subtree is greater.
C2_InOrderAscending ==
    /\ Ascending(print_sorted(tree))
    /\ \A n \in NodesOf(<< tree >>) :
           n.info # NULL =>
               /\ \A x \in ValuesOf(n.left) : is_less(x, n.info[1])
               /\ \A x \in ValuesOf(n.right) : is_less(n.info[1], x)

\* C3: after any sequence of insert, remove and clear calls, size() of the
\* root equals the number of successful inserts minus the number of
\* successful removes since the last clear, and equals the number of items a
\* full in-order traversal yields.
C3_SizeIsLedger ==
    count # NULL =>
        /\ size(tree) = count[1]
        /\ size(tree) = Len(print_sorted(tree))

\* C3 witness: a remove that replaced the matched value has succeeded on a
\* tree that still holds three values
C3_Witness ==
    /\ count # NULL
    /\ last.op = "remove" /\ last.ok
    /\ size(tree) = 3
    /\ tree.left # NULL /\ tree.right # NULL

\* C4: the tree refines a plain set: the values reachable in the tree are
\* those of the set built by the same successful calls, none lost and none
\* twice, and find(k) reports present exactly when k is in that set and
\* returns the stored value, not the query.
C4_RefinesSet ==
    /\ ValuesOf(<< tree >>) = aset
    /\ CountOf(<< tree >>) = Cardinality(aset)
    /\ \A q \in Fresh :
           LET f == find(tree, q)
           IN /\ f.found <=> SetHas(aset, q)
              /\ f.found => f.data \in aset

\* C5: after every call the cached height of every node is consistent: 1 +
\* the larger cached height of its children for a non-empty node, 0 for an
\* empty one; and height() of the root is the actual longest path.
C5_HeightConsistent ==
    /\ \A n \in NodesOf(<< tree >>) :
           IF empty(n) THEN n.height = 0
           ELSE n.height = 1 + Max2(CachedHeight(n.left), CachedHeight(n.right))
    /\ height(tree) = ActualHeight(<< tree >>)

\* C6: after every call the cached size of every node, not only the root,
\* is consistent: 1 + size(left) + size(right) for a non-empty node, 0 for
\* an empty one.
C6_SizeConsistent ==
    \A n \in NodesOf(<< tree >>) :
        IF empty(n) THEN n.size = 0
        ELSE n.size = 1 + CachedSize(n.left) + CachedSize(n.right)

\* C7: insert(v) on a tree that already stores a value Equal to v throws
\* and leaves the whole tree unchanged.
C7_DuplicateInsertFails ==
    [][(last'.op = "insert" /\ Stores(tree, last'.arg[1]))
           => (~last'.ok /\ tree' = tree)]_vars

\* C8: remove(k) when no stored value is Equal to k (the empty tree
\* included) throws and leaves the whole tree unchanged.
C8_MissingRemoveFails ==
    [][(last'.op = "remove" /\ ~Stores(tree, last'.arg[1]))
           => (~last'.ok /\ tree' = tree)]_vars

\* C8 witness: a remove of a key the tree does not store has thrown after
\* descending below the root of a tree with both children
C8_Witness ==
    /\ last.op = "remove" /\ ~last.ok
    /\ ~Stores(tree, last.arg[1])
    /\ tree.left # NULL /\ tree.right # NULL
    /\ is_less(tree.info[1], last.arg[1])

\* C9: on a non-empty tree pop() returns the greatest stored value and
\* popleft() the least, and the call removes exactly that value: every
\* other stored value is still in the tree afterwards and the returned one
\* is no longer found.
C9_PopTakesExtreme ==
    [][(last'.op \in {"pop", "popleft"} /\ ~empty(tree))
           => /\ last'.ok
              /\ last'.ret # NULL
              /\ last'.ret[1] \in ValuesOf(<< tree >>)
              /\ \A x \in ValuesOf(<< tree >>) :
                     IF last'.op = "pop"
                     THEN ~is_less(last'.ret[1], x)
                     ELSE ~is_less(x, last'.ret[1])
              /\ ~find(tree', last'.ret[1]).found
              /\ \A x \in ValuesOf(<< tree >>) :
                     ~is_equal(x, last'.ret[1]) => x \in ValuesOf(<< tree' >>)
              /\ CountOf(<< tree' >>) = CountOf(<< tree >>) - 1]_vars

\* C10: every successful pop() or popleft() decreases size() by exactly
\* one, and so does every successful remove(k), at the root and in the child
\* it popped the replacement from.
C10_SizeDropsByOne ==
    [][(last'.op \in {"pop", "popleft", "remove"} /\ last'.ok)
           => size(tree') = size(tree) - 1]_vars

\* C11: distinct values inserted in any order into an empty tree come back
\* from consecutive pop() calls in descending order and from consecutive
\* popleft() calls in ascending order (each call returns the extreme of what
\* is left), after the last of them the tree is empty with no children, and
\* a further pop/popleft/min/max throws.
C11_RoundTrip ==
    [][last'.op \in {"pop", "popleft"} =>
           IF aset = {}
           THEN ~last'.ok /\ tree' = tree /\ ~min(tree).ok /\ ~max(tree).ok
           ELSE /\ last'.ok
                /\ last'.ret = << IF last'.op = "pop" THEN SetMax(aset) ELSE SetMin(aset) >>
                /\ aset' = {} => (empty(tree') /\ is_leaf(tree'))]_vars

\* C12: update(v) on a tree that stores a value Equal to v changes no
\* shape: size() and height() of the root stay, every key stays at its
\* position, and find for the key afterwards returns v.
C12_UpdateInPlace ==
    [][(last'.op = "update" /\ Stores(tree, last'.arg[1])) =>
           /\ last'.ok
           /\ size(tree') = size(tree)
           /\ height(tree') = height(tree)
           /\ Shape(<< tree' >>) = Shape(<< tree >>)
           /\ find(tree', last'.arg[1]) = [found |-> TRUE, data |-> last'.arg[1]]]_vars

\* C13: update(v) on a tree that stores no value Equal to v behaves like a
\* successful insert(v): v is found afterwards, size() of the root is one
\* greater, and the tree is the one insert(v) produces from the same tree.
C13_UpdateInserts ==
    [][(last'.op = "update" /\ ~Stores(tree, last'.arg[1])) =>
           /\ last'.ok
           /\ find(tree', last'.arg[1]).found
           /\ size(tree') = size(tree) + 1
           /\ insert(tree, last'.arg[1]).ok
           /\ tree' = insert(tree, last'.arg[1]).node]_vars

\* C14: when distinct values are inserted into an empty tree and then removed
\* with remove in any order, every remove of a value that is still in the set
\* returns, and the remove that takes the last value leaves the tree empty:
\* size() = 0, height() = 0, empty(), no children, and min() throws.
C14_DrainEmpties ==
    [][last'.op = "remove" =>
           /\ last'.ok
           /\ aset' = {} => /\ size(tree') = 0
                            /\ height(tree') = 0
                            /\ empty(tree')
                            /\ is_leaf(tree')
                            /\ ~min(tree').ok]_vars

\* C15: after 1, 2, ..., 7 have been inserted in ascending order into an
\* empty tree, height() returns 3 and the in-order traversal yields 1..7.
C15_AscendingHeight ==
    aset = AscendingValues =>
        /\ height(tree) = 3
        /\ print_sorted(tree) = [k \in 1..MaxAscending |-> [key |-> k, tag |-> "a"]]

\* C16: pop() and popleft() called on an empty tree throw and leave the tree
\* as it was, min() and max() throw on it as well, the tree still has no
\* children, and a following insert gives what it gives on a freshly
\* constructed tree.
C16_EmptyTreeRecoverable ==
    [][(last'.op \in {"pop", "popleft"} /\ empty(tree)) =>
           /\ ~last'.ok
           /\ tree' = tree
           /\ ~min(tree').ok /\ min(tree').node = tree'
           /\ ~max(tree').ok /\ max(tree').node = tree'
           /\ empty(tree') /\ is_leaf(tree')
           /\ \A v \in Fresh : insert(tree', v) = insert(EmptyTree, v)]_vars

\* C17: on a tree built by insert and remove, the level-order loop
\* from begin_by_level() to end_by_level() reads every value of the set
\* exactly once, in breadth-first order (level by level, left before right),
\* each with level() equal to its node's distance from the root, and ends
\* after as many advances as the set has values; on an empty tree
\* begin_by_level() equals end_by_level().
C17_LevelOrder ==
    LET out == print_level(tree)
    IN /\ \A i \in 1..Len(out) : out[i].info # NULL
       /\ {out[i].info[1] : i \in 1..Len(out)} = aset
       /\ Len(out) = Cardinality(aset)
       /\ out = (IF empty(tree) THEN << >> ELSE LevelsFrom(tree, 0))
       /\ \A i \in 1..(Len(out) - 1) : out[i].level <= out[i + 1].level
       /\ empty(tree) => level_equal(begin_by_level(tree), end_by_level(tree))

\* C18: operator*, operator-> and level() called on an iterator that equals
\* the end iterator throw, as operator++ does: the call does not return, the
\* process is not killed, and no value is read from a node that is not there.
C18_ExhaustedThrows ==
    [][(Exhausted(it) /\ last'.op \in {"*", "->", "level", "++"}) =>
           (alive' /\ ~last'.ok)]_vars

\* C19: the copy constructor and operator= leave the second tree a clone of
\* the first, same shape, values, size and height; a later call on the first
\* tree leaves the second as it was, and a later call on the second leaves
\* the first as it was.
C19_CopyIsDeepClone ==
    [][/\ last'.op \in {"copy", "assign"} => (alive' /\ copy' = << tree >>)
       /\ last'.op \in CopyCalls => copy' = copy
       /\ last'.op = "on copy" => tree' = tree]_vars

\* C20: rebalance() on a node with consistent cached sizes and heights below
\* it and balance factor +2 or -2 keeps the in-order sequence of values,
\* brings the correct child to the top, and leaves the new top and both its
\* children (the demoted old root and, in a double rotation, the
\* intermediate child) with cached size and height equal to the values
\* recomputed from their children.
C20_RebalanceRecomputes ==
    [][last'.op = "rebalance" =>
           /\ print_sorted(tree') = print_sorted(tree)
           /\ tree'.info = Promoted(tree)
           /\ tree'.left # NULL /\ tree'.right # NULL
           /\ Recomputed(tree')
           /\ Recomputed(tree'.left[1])
           /\ Recomputed(tree'.right[1])]_vars

\* C21: after every call of insert, update, remove, pop, popleft or clear,
\* failed ones included, every node below the root stores a value, a node
\* that stores none has no children, and the root stores none only when the
\* tree holds no value at all.
C21_NoEmptyNodeBelowRoot ==
    /\ \A n \in NodesOf(tree.left) \cup NodesOf(tree.right) : ~empty(n)
    /\ \A n \in NodesOf(<< tree >>) : empty(n) => is_leaf(n)
    /\ empty(tree) => CountOf(<< tree >>) = 0

\* C21 witness: two values were inserted and one of them removed, so a child
\* node was emptied and its link dropped; the root is left alone with a value
C21_Witness ==
    /\ last.op = "remove" /\ last.ok
    /\ steps = 3 /\ count = << 1 >>
    /\ ~empty(tree) /\ is_leaf(tree)

====
